---- MODULE Spec2Model ----
(***************************************************************************)
(* Model of the Dependency container of library/simple-di                  *)
(* (dependencies.ts): one service slot with an injected override, a cache  *)
(* slot, a recipe, and a DisposableStack that owns the injected            *)
(* disposables; and of the ErrorHandler of library/error-handling (mod.ts):*)
(* the observer list, notify and handleError.                              *)
(***************************************************************************)
EXTENDS Integers, Sequences, FiniteSets, TLC

\* ------------------------------------------------------------------ bounds
\* number of instances the recipe may build in one behaviour
MaxBuilt == 2
\* number of stack.use registrations made before the first disposal
MaxUses == 2
\* the largest number of properties of a generated object handed to
\* convertUnknownToAppError
MaxProps == 3
\* number of context.run calls made in one behaviour
MaxRuns == 2
\* the deepest nesting of an Either in the value of another
MaxDepth == 5
\* the largest number of functions handed to sequence
MaxFunctions == 3

\* ------------------------------------------------------------------ values
\* `undefined`, the initial content of #serviceInjected and #serviceCached
Undefined == [kind |-> "undefined", n |-> 0]

\* the n-th instance produced by Reflect.construct(serviceInitializer, args);
\* the recipe class is a Disposable one (DisposableService of the test)
Inst(n) == [kind |-> "built", n |-> n]

\* services made by the caller: two disposable mocks and a plain one
DisposableMocks == {[kind |-> "disposable", n |-> 1], [kind |-> "disposable", n |-> 2]}
PlainMocks == {[kind |-> "plain", n |-> 1]}

\* a disposable mock whose [Symbol.dispose]() throws, in two copies
ThrowingMocks == {[kind |-> "throwing", n |-> 1], [kind |-> "throwing", n |-> 2]}

Objects == DisposableMocks \cup PlainMocks \cup {Inst(n) : n \in 1..MaxBuilt}

\* the marker for "no value recorded" in the history variables
None == [kind |-> "none", n |-> 0]

\* `this`, the value injection and clearInjected return
This == [kind |-> "container", n |-> 0]

\* the errors an operation can raise: the ReferenceError of stack.use on a
\* disposed stack, the error thrown by the [Symbol.dispose]() of a throwing
\* mock, the error thrown by the recipe's constructor, and the SuppressedError
\* a DisposableStack builds when more than one release throws
RefError == [kind |-> "ReferenceError", n |-> 0]
ReleaseError(o) == [kind |-> "releaseError", n |-> o.n]
CtorError == [kind |-> "constructorError", n |-> 0]
SuppressedError == [kind |-> "SuppressedError", n |-> 0]

VARIABLES
  cacheable,        \* private cacheable (constructor parameter)
  serviceInjected,  \* #serviceInjected
  serviceCached,    \* #serviceCached
  stack,            \* #stack: the resources registered, oldest first
  disposed,         \* #stack.disposed
  built,            \* number of Reflect.construct calls made so far
  name,             \* the public field of each recipe-built instance (0 as built, 1 once written)
  releaseLog,       \* the [Symbol.dispose]() calls the container made, in order
  last,             \* the last operation: argument, result, error, releases, constructor call
  injectedBuilt,    \* the recipe-built instances that were passed to injection
  passed,           \* the disposables passed to injection, in order, until the first disposal
  lastInject,       \* argument of the latest injection not followed by clearInjected/dispose
  prevResolve,      \* result of the latest resolve and the operations made since
  revert,           \* progress of injection, clearInjected, resolve and the cache slot at the injection
  reinject,         \* <<A, B>> when injection(B) replaced the disposable A in the slot
  scope,            \* the `using` block the container is declared in, if any
  observers,        \* ErrorHandler.#observers
  attached,         \* the functions attached and not detached since
  detached,         \* the functions detached after an attach and not attached again since
  ehLast,           \* the last ErrorHandler operation: argument, result, calls, messages
  normalized,       \* the last convertUnknownToAppError call: argument and result
  current,          \* the store of the AsyncLocalStorage in the code being executed (0: none)
  heap,             \* the entries of the objects handed to context.run
  frames,           \* the callbacks being executed, innermost last, with the store to restore
  task,             \* each run callback: phase, its initial object, the store it was suspended with
  ctxLast,          \* the last ContextStorage operation: who made it, arguments, result
  expected,         \* per initial object: its entries at run, overridden by what its callbacks set
  either,           \* the last Either made: the function called, its argument, what isLeft and isRight say
  sequenced         \* the last sequence(...functions)(arg): functions, arg, result, calls made

vars == <<cacheable, serviceInjected, serviceCached, stack, disposed, built, name, releaseLog,
          last, injectedBuilt, passed, lastInject, prevResolve, revert, reinject,
          scope, observers, attached, detached, ehLast, normalized,
          current, heap, frames, task, ctxLast, expected, either, sequenced>>

\* the variables of the container, those of the error handler, those of
\* the context storage and those of the Either functions
dvars == <<cacheable, serviceInjected, serviceCached, stack, disposed, built, name, releaseLog,
           last, injectedBuilt, passed, lastInject, prevResolve, revert, reinject, scope>>
evars == <<observers, attached, detached, ehLast, normalized>>
cvars == <<current, heap, frames, task, ctxLast, expected>>
fvars == <<either, sequenced>>

\* ------------------------------------------------------------- the runtime
\* truthiness of a slot: every object is truthy, undefined is not
Truthy(v) == v # Undefined

\* service && typeof service === 'object' && Symbol.dispose in service
HasDispose(service) ==
  /\ Truthy(service)
  /\ service.kind \in {"disposable", "throwing", "built"}

\* the callback adopted by the constructor and a resource added by stack.use
AdoptEntry == [kind |-> "adopt", obj |-> Undefined]
UseEntry(service) == [kind |-> "use", obj |-> service]

\* a disposal that releases from the oldest resource to the newest
RECURSIVE DisposeResourcesOldestFirst(_, _)
DisposeResourcesOldestFirst(s, st) ==
  IF s = <<>> THEN st
  ELSE LET e == s[1]
           rest == SubSeq(s, 2, Len(s))
       IN IF e.kind = "use"
            THEN DisposeResourcesOldestFirst(rest,
                   [st EXCEPT !.log = Append(@, e.obj),
                              !.seen = Append(@, st.injected),
                              !.errs = IF e.obj.kind = "throwing"
                                         THEN Append(@, ReleaseError(e.obj)) ELSE @])
            ELSE DisposeResourcesOldestFirst(rest, [st EXCEPT !.injected = Undefined])

\* a disposal that stops at the first release that throws
RECURSIVE DisposeResourcesStopping(_, _)
DisposeResourcesStopping(s, st) ==
  IF s = <<>> THEN st
  ELSE LET e == s[Len(s)]
           rest == SubSeq(s, 1, Len(s) - 1)
       IN IF e.kind = "use"
            THEN IF e.obj.kind = "throwing"
                   THEN [st EXCEPT !.log = Append(@, e.obj),
                                   !.seen = Append(@, st.injected),
                                   !.errs = Append(@, ReleaseError(e.obj))]
                   ELSE DisposeResourcesStopping(rest,
                          [st EXCEPT !.log = Append(@, e.obj),
                                     !.seen = Append(@, st.injected)])
            ELSE DisposeResourcesStopping(rest, [st EXCEPT !.injected = Undefined])

\* DisposableStack.prototype.dispose on a stack that is not yet disposed:
\* the resources are released from the newest to the oldest; a `use` entry
\* calls the object's [Symbol.dispose](), the adopted callback assigns
\* undefined to #serviceInjected; a release that throws does not stop the
\* loop, its error is kept (errs, in the order thrown); seen is the value of
\* #serviceInjected at each release
RECURSIVE DisposeResources(_, _)
DisposeResources(s, st) ==
  IF s = <<>> THEN st
  ELSE LET e == s[Len(s)]
           rest == SubSeq(s, 1, Len(s) - 1)
       IN IF e.kind = "use"
            THEN DisposeResources(rest,
                   [st EXCEPT !.log = Append(@, e.obj),
                              !.seen = Append(@, st.injected),
                              !.errs = IF e.obj.kind = "throwing"
                                         THEN Append(@, ReleaseError(e.obj)) ELSE @])
            ELSE DisposeResources(rest, [st EXCEPT !.injected = Undefined])

\* the error DisposableStack.prototype.dispose throws after the loop: none,
\* the only error thrown, or a SuppressedError chaining several
Completion(errs) ==
  CASE Len(errs) = 0 -> <<>>
    [] Len(errs) = 1 -> errs
    [] OTHER -> <<SuppressedError>> \o errs

\* ------------------------------------------------------- the four handlers
\* the container as a record, for the handlers below
Self == [injected |-> serviceInjected, cached |-> serviceCached, stack |-> stack,
         disposed |-> disposed, built |-> built, log |-> releaseLog,
         ret |-> Undefined, threw |-> <<>>, ctor |-> 0, seen |-> <<>>]

\* injection as it would be if it built the service of the recipe at once
injectionBuilding(d, service) ==
  LET d1 == [d EXCEPT !.injected = service, !.cached = Inst(d.built + 1),
                      !.built = d.built + 1, !.ctor = 1]
  IN IF HasDispose(service)
       THEN IF d1.disposed
              THEN [d1 EXCEPT !.threw = <<RefError>>]
              ELSE [d1 EXCEPT !.stack = Append(@, UseEntry(service)), !.ret = This]
       ELSE [d1 EXCEPT !.ret = This]

\* injection as it would be if it registered the disposable before
\* assigning the slot
injectionRegisterFirst(d, service) ==
  IF HasDispose(service)
    THEN IF d.disposed
           THEN [d EXCEPT !.threw = <<RefError>>]
           ELSE [d EXCEPT !.stack = Append(@, UseEntry(service)),
                          !.injected = service, !.ret = This]
    ELSE [d EXCEPT !.injected = service, !.ret = This]

\* injection(service): assign the slot, then register a disposable
injection(d, service) ==
  LET d1 == [d EXCEPT !.injected = service]
  IN IF HasDispose(service)
       THEN IF d1.disposed
              THEN [d1 EXCEPT !.threw = <<RefError>>]
              ELSE [d1 EXCEPT !.stack = Append(@, UseEntry(service)), !.ret = This]
       ELSE [d1 EXCEPT !.ret = This]

\* clearInjected as it would be if it disposed of the stack
clearInjectedDisposing(d) ==
  IF d.disposed
    THEN [d EXCEPT !.injected = Undefined, !.ret = This]
    ELSE LET st == DisposeResources(d.stack,
                     [injected |-> d.injected, log |-> d.log, errs |-> <<>>, seen |-> <<>>])
         IN [d EXCEPT !.injected = Undefined, !.log = st.log, !.stack = <<>>,
                      !.disposed = TRUE, !.ret = This]

\* clearInjected as it would be if it emptied the cache slot as well
clearInjectedAndCache(d) ==
  [d EXCEPT !.injected = Undefined, !.cached = Undefined, !.ret = This]

\* clearInjected(): assign undefined to the slot
clearInjected(d) == [d EXCEPT !.injected = Undefined, !.ret = This]

\* resolve as it would be if the cache slot were looked at before the
\* injected slot
resolveCacheFirst(d) ==
  LET c == IF ~cacheable THEN Undefined ELSE d.cached
  IN IF c # Undefined
       THEN [d EXCEPT !.ret = c]
       ELSE IF Truthy(d.injected)
              THEN [d EXCEPT !.ret = d.injected]
              ELSE [d EXCEPT !.cached = Inst(d.built + 1), !.built = d.built + 1,
                             !.ret = Inst(d.built + 1)]

\* resolve as it would be if the cache slot were never read
resolveNoMemo(d) ==
  IF Truthy(d.injected)
    THEN [d EXCEPT !.ret = d.injected]
    ELSE [d EXCEPT !.cached = Inst(d.built + 1), !.built = d.built + 1,
                   !.ret = Inst(d.built + 1)]

\* resolve as it would be without the `if (!this.cacheable)` reset
resolveAlwaysCached(d) ==
  IF Truthy(d.injected)
    THEN [d EXCEPT !.ret = d.injected]
    ELSE IF d.cached # Undefined
           THEN [d EXCEPT !.ret = d.cached]
           ELSE [d EXCEPT !.cached = Inst(d.built + 1), !.built = d.built + 1,
                          !.ret = Inst(d.built + 1)]

\* resolve as it would be if the slot were emptied before the injected
\* slot is looked at
resolveResetFirst(d) ==
  LET c == IF ~cacheable THEN Undefined ELSE d.cached
  IN IF Truthy(d.injected)
       THEN [d EXCEPT !.cached = c, !.ret = d.injected]
       ELSE IF c # Undefined
              THEN [d EXCEPT !.cached = c, !.ret = c]
              ELSE [d EXCEPT !.cached = Inst(d.built + 1), !.built = d.built + 1,
                             !.ret = Inst(d.built + 1), !.ctor = 1]

\* resolve as it would be if an instance built with caching disabled were
\* not assigned to the slot
resolveNotStoring(d) ==
  IF Truthy(d.injected)
    THEN [d EXCEPT !.ret = d.injected]
    ELSE LET c == IF ~cacheable THEN Undefined ELSE d.cached
         IN IF c # Undefined
              THEN [d EXCEPT !.cached = c, !.ret = c]
              ELSE [d EXCEPT !.cached = IF cacheable THEN Inst(d.built + 1) ELSE Undefined,
                             !.built = d.built + 1,
                             !.ret = Inst(d.built + 1), !.ctor = 1]

\* get resolve(): injected, else cached (dropped first when not cacheable),
\* else a new instance stored in the cache slot
resolve(d) ==
  IF Truthy(d.injected)
    THEN [d EXCEPT !.ret = d.injected]
    ELSE LET c == IF ~cacheable THEN Undefined ELSE d.cached
         IN IF c # Undefined
              THEN [d EXCEPT !.cached = c, !.ret = c]
              ELSE [d EXCEPT !.cached = Inst(d.built + 1), !.built = d.built + 1,
                             !.ret = Inst(d.built + 1), !.ctor = 1]

\* resolve with a throwing constructor as it would be if the error were
\* caught and another one raised in its place
resolveWrapping(d) ==
  IF Truthy(d.injected)
    THEN [d EXCEPT !.ret = d.injected]
    ELSE LET c == IF ~cacheable THEN Undefined ELSE d.cached
         IN IF c # Undefined
              THEN [d EXCEPT !.cached = c, !.ret = c]
              ELSE [d EXCEPT !.cached = c, !.threw = <<SuppressedError, CtorError>>, !.ctor = 1]

\* get resolve() when Reflect.construct throws: the ??= assignment is not
\* made and the error leaves the getter
resolveThrowing(d) ==
  IF Truthy(d.injected)
    THEN [d EXCEPT !.ret = d.injected]
    ELSE LET c == IF ~cacheable THEN Undefined ELSE d.cached
         IN IF c # Undefined
              THEN [d EXCEPT !.cached = c, !.ret = c]
              ELSE [d EXCEPT !.cached = c, !.threw = <<CtorError>>, !.ctor = 1]

\* dispose as it would be if the cached instance were released as well
disposeWithCached(d) ==
  IF d.disposed
    THEN d
    ELSE LET st == DisposeResources(d.stack,
                     [injected |-> d.injected, log |-> d.log, errs |-> <<>>, seen |-> <<>>])
         IN [d EXCEPT !.injected = st.injected,
                      !.log = IF HasDispose(d.cached) THEN Append(st.log, d.cached) ELSE st.log,
                      !.stack = <<>>, !.disposed = TRUE, !.threw = Completion(st.errs)]

\* dispose as it would be if the errors of the releases were swallowed
disposeSilent(d) ==
  IF d.disposed
    THEN d
    ELSE LET st == DisposeResources(d.stack,
                     [injected |-> d.injected, log |-> d.log, errs |-> <<>>, seen |-> <<>>])
         IN [d EXCEPT !.injected = st.injected, !.log = st.log,
                      !.stack = <<>>, !.disposed = TRUE]

\* dispose as it would be if it emptied the cache slot as well
disposeEmptyingCache(d) ==
  IF d.disposed
    THEN [d EXCEPT !.cached = Undefined]
    ELSE LET st == DisposeResources(d.stack,
                     [injected |-> d.injected, log |-> d.log, errs |-> <<>>, seen |-> <<>>])
         IN [d EXCEPT !.injected = st.injected, !.cached = Undefined, !.log = st.log,
                      !.stack = <<>>, !.disposed = TRUE, !.threw = Completion(st.errs)]

\* [Symbol.dispose](): this.#stack.dispose()
dispose(d) ==
  IF d.disposed
    THEN d
    ELSE LET st == DisposeResources(d.stack,
                     [injected |-> d.injected, log |-> d.log, errs |-> <<>>, seen |-> <<>>])
         IN [d EXCEPT !.injected = st.injected, !.log = st.log, !.seen = st.seen,
                      !.stack = <<>>, !.disposed = TRUE, !.threw = Completion(st.errs)]

\* the part of a handler's result that is the container's new state
Commit(d) ==
  /\ serviceInjected' = d.injected
  /\ serviceCached' = d.cached
  /\ stack' = d.stack
  /\ disposed' = d.disposed
  /\ built' = d.built
  /\ releaseLog' = d.log
  /\ UNCHANGED cacheable

\* the releases an operation added to the log
NewReleases(d) == SubSeq(d.log, Len(releaseLog) + 1, Len(d.log))

\* the values a caller passes to injection: its own mocks and the instance
\* the latest resolve handed out
Injectable ==
  DisposableMocks \cup PlainMocks \cup {o \in {prevResolve.ret} : o.kind = "built"}

\* -------------------------------------------------------- the error handler
\* HTTPStatus.InternalServerError and HTTPStatus.NotFound
InternalServerError == 500
NotFound == 404

\* the values handed to attach and detach: two observers that return, one
\* that throws, and a value that is not a function
Functions == {[kind |-> "observer", n |-> 1], [kind |-> "observer", n |-> 2],
              [kind |-> "throwingObserver", n |-> 1]}
NonFunctions == {[kind |-> "notfn", n |-> 0]}

\* the error a throwing observer throws, and the one thrown by a getter of
\* the value being normalized
ObserverError(f) == [kind |-> "observerError", n |-> f.n]
GetterError == [kind |-> "getterError", n |-> 0]

\* the error thrown by the custom inspector of a value, and inspect(value):
\* the errors it throws
InspectError == [kind |-> "inspectError", n |-> 0]
inspect(value) == IF value.kind = "uninspectable" THEN <<InspectError>> ELSE <<>>

\* new AppError(name, message, isOperational, HttpStatus)
AppError(name_, message, isOperational, HttpStatus) ==
  [kind |-> "AppError",
   props |-> [name |-> name_, message |-> message, isOperational |-> isOperational,
              HttpStatus |-> HttpStatus],
   own |-> {"name", "message", "isOperational", "HttpStatus"}]

\* the values handled: props are the properties `in` finds, own those that
\* Object.assign copies; a getter of the hostile one throws, the custom
\* inspector of the uninspectable one throws
AppErrors == {AppError("ResourceNotFound", "User resource not found", TRUE, NotFound),
              AppError("ResourceNotFound", "User resource not found", FALSE, InternalServerError)}

Inputs ==
  AppErrors \cup
  { [kind |-> "Error", props |-> [message |-> "Technical error", name |-> "Error"], own |-> {}],
    [kind |-> "object", props |-> [reason |-> "gone", statusCode |-> 410], own |-> {"reason", "statusCode"}],
    [kind |-> "object", props |-> [HttpStatus |-> 403], own |-> {"HttpStatus"}],
    [kind |-> "object", props |-> [statusCode |-> 404, HttpStatus |-> 403],
     own |-> {"statusCode", "HttpStatus"}],
    [kind |-> "object",
     props |-> [code |-> "UnreachableDB", description |-> "Not processable", status |-> 422,
                operational |-> TRUE],
     own |-> {"code", "description", "status", "operational"}],
    [kind |-> "object",
     props |-> [message |-> "m", reason |-> "r", description |-> "d", name |-> "n", code |-> "c",
                HTTPStatus |-> 400, statusCode |-> 404, status |-> 422,
                isOperational |-> TRUE, operational |-> FALSE],
     own |-> {"message", "reason", "description", "name", "code", "HTTPStatus", "statusCode",
              "status", "isOperational", "operational"}],
    [kind |-> "object",
     props |-> [reason |-> "r", description |-> "d", code |-> "c", statusCode |-> 404,
                status |-> 422, operational |-> TRUE],
     own |-> {"reason", "description", "code", "statusCode", "status", "operational"}],
    [kind |-> "object", props |-> [constructor |-> "Date"], own |-> {}],
    [kind |-> "string", props |-> [value |-> "I am a string"], own |-> {}],
    [kind |-> "primitive", props |-> [value |-> "42"], own |-> {}],
    [kind |-> "hostile", props |-> [message |-> "getter"], own |-> {"message"}],
    [kind |-> "uninspectable", props |-> [message |-> "inspector"], own |-> {"message"}] }

\* the properties convertUnknownToAppError looks up or Object.assign may
\* overwrite, each with a value that tells where it came from, and the
\* plain objects that have some of them as own properties
PropertyValues ==
  [message |-> "message", reason |-> "reason", description |-> "description",
   name |-> "name", code |-> "code",
   HTTPStatus |-> 400, statusCode |-> 404, status |-> 422, HttpStatus |-> 403,
   isOperational |-> FALSE, operational |-> TRUE]

ObjectsWith ==
  { [kind |-> "object", props |-> [p \in S |-> PropertyValues[p]], own |-> S] :
      S \in {T \in SUBSET DOMAIN PropertyValues : Cardinality(T) \in 1..MaxProps} }

\* #getObjectIfNotAlreadyObject
GetObjectIfNotAlreadyObject(target) ==
  CASE target.kind = "string" ->
         [kind |-> "object", props |-> [message |-> target.props.value], own |-> {"message"}]
    [] target.kind = "primitive" ->
         [kind |-> "object", props |-> [value |-> "none"], own |-> {}]
    [] OTHER -> target

\* #getOneOfTheseProperties: the first property found with `in`
RECURSIVE GetOneOfTheseProperties(_, _, _)
GetOneOfTheseProperties(object, possible, defaultValue) ==
  IF possible = <<>> THEN defaultValue
  ELSE IF Head(possible) \in DOMAIN object.props /\ object.kind # "primitive"
         THEN object.props[Head(possible)]
         ELSE GetOneOfTheseProperties(object, Tail(possible), defaultValue)

\* convertUnknownToAppError without the instanceof test: an AppError is
\* normalized like any other object
convertAlways(errorToHandle) ==
  IF errorToHandle.kind = "hostile"
    THEN [val |-> None, threw |-> <<GetterError>>, fresh |-> FALSE]
    ELSE
      LET errorToEnrich == GetObjectIfNotAlreadyObject(errorToHandle)
          message == GetOneOfTheseProperties(errorToEnrich,
                       <<"message", "reason", "description">>, "Unknown error")
          name_ == GetOneOfTheseProperties(errorToEnrich, <<"name", "code">>, "unknown-error")
          httpStatus == GetOneOfTheseProperties(errorToEnrich,
                          <<"HTTPStatus", "statusCode", "status">>, InternalServerError)
          isOperational == GetOneOfTheseProperties(errorToEnrich,
                             <<"isOperational", "operational">>, FALSE)
          standardError == AppError(name_, message, isOperational, httpStatus)
          names == DOMAIN standardError.props \cup errorToEnrich.own
      IN [val |-> [kind |-> "AppError",
                   props |-> [p \in names |->
                                IF p \in errorToEnrich.own
                                  THEN errorToEnrich.props[p]
                                  ELSE standardError.props[p]],
                   own |-> names],
          threw |-> <<>>, fresh |-> TRUE]

\* convertUnknownToAppError: val is the AppError returned, threw the error
\* of a getter, fresh tells that val is an object made by this call
convertUnknownToAppError(errorToHandle) ==
  IF errorToHandle.kind = "AppError"
    THEN [val |-> errorToHandle, threw |-> <<>>, fresh |-> FALSE]
    ELSE IF errorToHandle.kind = "hostile"
      THEN [val |-> None, threw |-> <<GetterError>>, fresh |-> FALSE]
      ELSE
        LET errorToEnrich == GetObjectIfNotAlreadyObject(errorToHandle)
            message == GetOneOfTheseProperties(errorToEnrich,
                         <<"message", "reason", "description">>, "Unknown error")
            name_ == GetOneOfTheseProperties(errorToEnrich, <<"name", "code">>, "unknown-error")
            httpStatus == GetOneOfTheseProperties(errorToEnrich,
                            <<"HTTPStatus", "statusCode", "status">>, InternalServerError)
            isOperational == GetOneOfTheseProperties(errorToEnrich,
                               <<"isOperational", "operational">>, FALSE)
            standardError == AppError(name_, message, isOperational, httpStatus)
            names == DOMAIN standardError.props \cup errorToEnrich.own
        IN [val |-> [kind |-> "AppError",
                     props |-> [p \in names |->
                                  IF p \in errorToEnrich.own
                                    THEN errorToEnrich.props[p]
                                    ELSE standardError.props[p]],
                     own |-> names],
            threw |-> <<>>, fresh |-> TRUE]

\* attach without the includes test
attachAgain(obs, func) ==
  IF func.kind = "notfn" THEN obs ELSE Append(obs, func)

\* attach: a non-function or a function already in the list is ignored
attach(obs, func) ==
  IF func.kind = "notfn" \/ \E i \in 1..Len(obs) : obs[i] = func
    THEN obs
    ELSE Append(obs, func)

\* detach that empties the list
detachAll(obs, func) == <<>>

\* detach: this.#observers.filter((observer) => observer !== func)
detach(obs, func) == SelectSeq(obs, LAMBDA observer : observer # func)

\* notify as it would be if it called the first observer of the list only
notifyFirst(obs, data) ==
  IF obs = <<>> THEN [calls |-> <<>>, threw |-> <<>>]
  ELSE [calls |-> <<[fn |-> Head(obs), data |-> data]>>,
        threw |-> IF Head(obs).kind = "throwingObserver"
                    THEN <<ObserverError(Head(obs))>> ELSE <<>>]

\* notify: the observers are called in the order of the list; the error of
\* one that throws leaves the loop
RECURSIVE notify(_, _)
notify(obs, data) ==
  IF obs = <<>> THEN [calls |-> <<>>, threw |-> <<>>]
  ELSE LET call == [fn |-> Head(obs), data |-> data]
       IN IF Head(obs).kind = "throwingObserver"
            THEN [calls |-> <<call>>, threw |-> <<ObserverError(Head(obs))>>]
            ELSE LET rest == notify(Tail(obs), data)
                 IN [calls |-> <<call>> \o rest.calls, threw |-> rest.threw]

\* the messages published on the two diagnostics channels
HandleErrorMessage(errorToHandle, appError) ==
  [channel |-> "error-handling:handleError", errorToHandle |-> errorToHandle,
   appError |-> appError]
ErrorMessage(handlingError, errorToHandle) ==
  [channel |-> "error-handling:error", handlingError |-> handlingError,
   errorToHandle |-> errorToHandle]

\* the result of an ErrorHandler operation before anything happened
EhResult == [ret |-> 0, calls |-> <<>>, pub |-> <<>>, threw |-> <<>>]

\* the catch block of handleError: publish, write to stdout what inspect
\* gives, return InternalServerError
handleErrorCatch(r, handlingError, errorToHandle) ==
  LET published == [r EXCEPT !.pub = r.pub \o <<ErrorMessage(handlingError, errorToHandle)>>]
      thrown == inspect(handlingError) \o inspect(errorToHandle)
  IN IF thrown # <<>>
       THEN [published EXCEPT !.threw = <<thrown[1]>>]
       ELSE [published EXCEPT !.ret = InternalServerError]

\* handleError that answers InternalServerError whatever the AppError says
handleErrorDefaultStatus(obs, errorToHandle) ==
  LET c == convertUnknownToAppError(errorToHandle)
  IN IF c.threw # <<>>
       THEN handleErrorCatch(EhResult, c.threw[1], errorToHandle)
       ELSE LET n == notify(obs, c.val)
                r == [EhResult EXCEPT !.calls = n.calls,
                                      !.pub = <<HandleErrorMessage(errorToHandle, c.val)>>]
            IN IF n.threw # <<>>
                 THEN handleErrorCatch(r, n.threw[1], errorToHandle)
                 ELSE [r EXCEPT !.ret = InternalServerError]

\* handleError: normalize, publish, notify, return the status; whatever is
\* thrown on the way goes to the catch block
handleError(obs, errorToHandle) ==
  LET c == convertUnknownToAppError(errorToHandle)
  IN IF c.threw # <<>>
       THEN handleErrorCatch(EhResult, c.threw[1], errorToHandle)
       ELSE LET n == notify(obs, c.val)
                r == [EhResult EXCEPT !.calls = n.calls,
                                      !.pub = <<HandleErrorMessage(errorToHandle, c.val)>>]
            IN IF n.threw # <<>>
                 THEN handleErrorCatch(r, n.threw[1], errorToHandle)
                 ELSE [r EXCEPT !.ret = c.val.props.HttpStatus]

\* the record of an ErrorHandler operation kept in `ehLast`
EhOp(op, arg, r) ==
  [op |-> op, arg |-> arg, ret |-> r.ret, calls |-> r.calls, pub |-> r.pub, threw |-> r.threw]

\* ------------------------------------------------------ the context storage
\* the keys and values of a store; "undefined" is what reading a key that
\* was never set gives
Keys == {"requestId", "user"}
Vals == {"a", "b"}
NoEntries == [k \in Keys |-> "undefined"]

\* the run calls of a behaviour and the objects that may be handed to them
Runs == 1..MaxRuns
Objs == 1..MaxRuns

\* the initial contexts handed to run: {} and { requestId: 'a' }
InitialContexts == {NoEntries, [NoEntries EXCEPT !["requestId"] = "a"]}

\* the storage as the code being executed sees it
Ctx == [current |-> current, heap |-> heap]

\* AsyncLocalStorage.run: the store is initialContext itself while the
\* callback runs, and the store of before once it returned
enter(c, initialContext) == [c EXCEPT !.current = initialContext]

\* the end of AsyncLocalStorage.run as it would be if the store stayed
leaveKeeping(c, saved) == c

leave(c, saved) == [c EXCEPT !.current = saved]

\* a continuation as it would resume if the store were not restored
resumeUnrestored(c, ctx) == c

\* the continuation of an await resumes with the store it was suspended with
resume(c, ctx) == [c EXCEPT !.current = ctx]

\* getStore(): this.#currentContext.getStore()
getStore(c) == c.current

\* set as it would be if it replaced the store by the one entry
setOnly(c, key, value) ==
  IF getStore(c) # 0
    THEN [c EXCEPT !.heap[getStore(c)] = [NoEntries EXCEPT ![key] = value]]
    ELSE c

\* set(key, value): store[key] = value when there is a store
set(c, key, value) ==
  IF getStore(c) # 0
    THEN [c EXCEPT !.heap[getStore(c)][key] = value]
    ELSE c

\* get(key): store[key] when there is a store, undefined otherwise
get(c, key) ==
  IF getStore(c) # 0 THEN c.heap[getStore(c)][key] ELSE "undefined"

\* the result of a ContextStorage operation: ret for get, ref and entries
\* for getStore (ref 0: undefined)
CtxResult == [ret |-> "undefined", ref |-> 0, entries |-> NoEntries]

\* the record of a ContextStorage operation kept in `ctxLast`
CtxOp(op, who, key, val, r) ==
  [op |-> op, who |-> who, key |-> key, val |-> val,
   ret |-> r.ret, ref |-> r.ref, entries |-> r.entries]

\* the callback being executed: 0 outside every callback
Executing == IF frames = <<>> THEN 0 ELSE frames[Len(frames)].who

\* ------------------------------------------------------------------ Either
\* the values wrapped: undefined, a number, and an object that has a tag of
\* its own
Wrapped == {Undefined, [kind |-> "number", n |-> 1], [tag |-> "right", value |-> Undefined]}

\* Left(val) and Right(val)
Left(val) == [tag |-> "left", value |-> val]
Right(val) == [tag |-> "right", value |-> val]

\* isLeft(val)
isLeft(val) == val.tag = "left"

\* isRight as it would be if it told a Right by its value
isRightByValue(val) == val.value # Undefined

\* isRight(val)
isRight(val) == val.tag = "right"

\* the functions handed to sequence: two that return a Right of the value
\* they get with their mark added, two that return a Left of their error
Handles == {[returns |-> "right", n |-> 1], [returns |-> "right", n |-> 2],
            [returns |-> "left", n |-> 3], [returns |-> "left", n |-> 4]}

\* fn(acc)
Call(fn, acc) ==
  IF fn.returns = "right" THEN Right(Append(acc, fn.n))
                        ELSE Left([kind |-> "error", n |-> fn.n])

\* the sequences of at most n handles
RECURSIVE HandleSeqs(_)
HandleSeqs(n) ==
  IF n = 0 THEN {<<>>}
  ELSE LET shorter == HandleSeqs(n - 1)
       IN shorter \cup {Append(fs, fn) : fs \in shorter, fn \in Handles}

\* the loop of sequence as it would be without the return on a Left
RECURSIVE sequenceLoopOn(_, _, _)
sequenceLoopOn(functions, acc, calls) ==
  IF functions = <<>>
    THEN [ret |-> Right(acc), calls |-> calls]
    ELSE LET fn == Head(functions)
             res == Call(fn, acc)
             made == Append(calls, [fn |-> fn, arg |-> acc])
         IN IF isLeft(res)
              THEN sequenceLoopOn(Tail(functions), acc, made)
              ELSE sequenceLoopOn(Tail(functions), res.value, made)

\* the loop of sequence from acc on: `for (const fn of functions)`, with the
\* calls made so far
RECURSIVE sequenceLoop(_, _, _)
sequenceLoop(functions, acc, calls) ==
  IF functions = <<>>
    THEN [ret |-> Right(acc), calls |-> calls]
    ELSE LET fn == Head(functions)
             res == Call(fn, acc)
             made == Append(calls, [fn |-> fn, arg |-> acc])
         IN IF isLeft(res)
              THEN [ret |-> res, calls |-> made]
              ELSE sequenceLoop(Tail(functions), res.value, made)

\* sequence(...functions)(arg)
sequence(functions, arg) == sequenceLoop(functions, arg, <<>>)

\* ------------------------------------------------------------------- Init
\* the record of an operation kept in `last`
Op(op, arg, d) ==
  [op |-> op, arg |-> arg, ret |-> d.ret, threw |-> d.threw,
   rel |-> NewReleases(d), fresh |-> d.built > built, ctor |-> d.ctor, seen |-> d.seen]

\* no injection followed by clearInjected is in progress
Idle == [phase |-> "idle", cached |-> Undefined]

\* new Dependency(serviceInitializer, args, cacheable)
Init ==
  /\ cacheable \in BOOLEAN
  /\ serviceInjected = Undefined
  /\ serviceCached = Undefined
  /\ stack = <<AdoptEntry>>
  /\ disposed = FALSE
  /\ built = 0
  /\ name = [n \in 1..MaxBuilt |-> 0]
  /\ releaseLog = <<>>
  /\ last = [op |-> "new", arg |-> None, ret |-> None, threw |-> <<>>,
             rel |-> <<>>, fresh |-> FALSE, ctor |-> 0, seen |-> <<>>]
  /\ injectedBuilt = {}
  /\ passed = <<>>
  /\ lastInject = None
  /\ prevResolve = [ret |-> None, since |-> {}]
  /\ revert = Idle
  /\ reinject = <<>>
  /\ scope = [on |-> FALSE, injected |-> {}]
  /\ observers = <<>>
  /\ attached = {}
  /\ detached = {}
  /\ ehLast = EhOp("new", None, EhResult)
  /\ normalized = [arg |-> None, val |-> None, threw |-> <<>>, fresh |-> FALSE]
  /\ current = 0
  /\ heap = [o \in Objs |-> NoEntries]
  /\ frames = <<>>
  /\ task = [r \in Runs |-> [phase |-> "idle", obj |-> 0, ctx |-> 0, resumed |-> FALSE]]
  /\ ctxLast = CtxOp("new", 0, "", "", CtxResult)
  /\ expected = [o \in Objs |-> NoEntries]
  /\ either = [made |-> "none", arg |-> None, val |-> None, depth |-> 0,
               isLeft |-> FALSE, isRight |-> FALSE]
  /\ sequenced = [functions |-> <<>>, arg |-> <<>>, ret |-> None, calls |-> <<>>]

\* ---------------------------------------------------------------- actions
\* the disposable mocks injected inside the current `using` block
ScopeInjected(service) ==
  IF scope.on /\ service \in DisposableMocks
    THEN [scope EXCEPT !.injected = @ \cup {service}]
    ELSE scope

\* dep.injection(service) for a service taken from S
InjectFrom(S) ==
  \E service \in S :
    LET d == injection(Self, service)
    IN /\ (HasDispose(service) /\ ~disposed) => Len(stack) <= MaxUses
       /\ Commit(d)
       /\ UNCHANGED name
       /\ last' = Op("inject", service, d)
       /\ injectedBuilt' = IF service.kind = "built"
                             THEN injectedBuilt \cup {service} ELSE injectedBuilt
       /\ passed' = IF HasDispose(service) /\ ~disposed THEN Append(passed, service) ELSE passed
       /\ lastInject' = service
       /\ prevResolve' = [prevResolve EXCEPT !.since = @ \cup {"inject"}]
       /\ revert' = IF revert.phase = "injected"
                       THEN revert
                       ELSE [phase |-> "injected", cached |-> serviceCached]
       /\ reinject' = IF /\ HasDispose(serviceInjected)
                         /\ HasDispose(service)
                         /\ serviceInjected # service
                        THEN <<serviceInjected, service>>
                        ELSE <<>>
       /\ scope' = ScopeInjected(service)
       /\ UNCHANGED <<evars, cvars, fvars>>

Inject == InjectFrom(Injectable)

\* injection of a mock whose release throws
InjectThrowing == InjectFrom(ThrowingMocks)

ClearInjected ==
  LET d == clearInjected(Self)
  IN /\ Commit(d)
     /\ UNCHANGED <<name, injectedBuilt, passed, scope>>
     /\ last' = Op("clearInjected", None, d)
     /\ lastInject' = None
     /\ prevResolve' = [prevResolve EXCEPT !.since = @ \cup {"clearInjected"}]
     /\ revert' = IF revert.phase = "injected"
                     THEN [revert EXCEPT !.phase = "cleared"]
                     ELSE Idle
     /\ reinject' = <<>>
     /\ UNCHANGED <<evars, cvars, fvars>>

\* `dep.resolve` with result d, and `dep.resolve.name = 'Jane'` on a
\* recipe-built instance when write is TRUE
ResolveBy(d, write) ==
  /\ d.built <= MaxBuilt
  /\ write => d.ret.kind = "built"
  /\ Commit(d)
  /\ name' = IF write THEN [name EXCEPT ![d.ret.n] = 1] ELSE name
  /\ last' = Op("resolve", None, d)
  /\ prevResolve' = IF d.threw = <<>> THEN [ret |-> d.ret, since |-> {}] ELSE prevResolve
  /\ revert' = CASE revert.phase = "injected" -> revert
                 [] revert.phase = "cleared" /\ d.threw = <<>>
                      -> [revert EXCEPT !.phase = "reverted"]
                 [] revert.phase = "disposed" /\ d.threw = <<>>
                      -> [revert EXCEPT !.phase = "resumed"]
                 [] OTHER -> Idle
  /\ UNCHANGED <<injectedBuilt, passed, lastInject, reinject, scope>>
  /\ UNCHANGED <<evars, cvars, fvars>>

Resolve(write) == ResolveBy(resolve(Self), write)

Read == Resolve(FALSE)

Write == Resolve(TRUE)

\* `dep.resolve` for a recipe whose constructor throws
ReadFails == ResolveBy(resolveThrowing(Self), FALSE)

\* dep[Symbol.dispose](), called by hand (exit = None) or by the `using`
\* block at its end
DisposeAt(exit, sc) ==
  LET d == dispose(Self)
  IN /\ Commit(d)
     /\ UNCHANGED <<name, injectedBuilt>>
     /\ passed' = <<>>
     /\ last' = Op("dispose", exit, d)
     /\ lastInject' = None
     /\ prevResolve' = [prevResolve EXCEPT !.since = @ \cup {"dispose"}]
     /\ revert' = IF revert.phase = "injected"
                     THEN [revert EXCEPT !.phase = "disposed"]
                     ELSE Idle
     /\ reinject' = <<>>
     /\ scope' = sc
     /\ UNCHANGED <<evars, cvars, fvars>>

Dispose == DisposeAt(None, scope)

\* the ways a `using` block ends
Exits == {[kind |-> k, n |-> 0] : k \in {"normal", "return", "throw"}}

\* { using _ = dep ...
EnterScope ==
  /\ ~scope.on
  /\ scope' = [on |-> TRUE, injected |-> {}]
  /\ UNCHANGED <<cacheable, serviceInjected, serviceCached, stack, disposed, built, name,
                 releaseLog, last, injectedBuilt, passed, lastInject, prevResolve, revert,
                 reinject>>
  /\ UNCHANGED <<evars, cvars, fvars>>

\* ... }: the block ends, normally, by a return or by a throw, and the
\* runtime calls dep[Symbol.dispose]() once
ExitScope ==
  /\ scope.on
  /\ \E exit \in Exits : DisposeAt(exit, [scope EXCEPT !.on = FALSE])

Next == Inject \/ ClearInjected \/ Read \/ Write \/ Dispose

Spec == Init /\ [][Next]_vars

\* the container used inside `using` blocks
NextScope == Inject \/ ClearInjected \/ Read \/ Dispose \/ EnterScope \/ ExitScope

SpecScope == Init /\ [][NextScope]_vars

\* the container with mocks whose release throws and a recipe whose
\* constructor may throw
NextFaults == Inject \/ InjectThrowing \/ ClearInjected \/ Read \/ ReadFails \/ Dispose

SpecFaults == Init /\ [][NextFaults]_vars

\* errorHandler.attach(func)
Attach ==
  \E func \in Functions \cup NonFunctions :
    /\ observers' = attach(observers, func)
    /\ attached' = IF func \in Functions THEN attached \cup {func} ELSE attached
    /\ detached' = detached \ {func}
    /\ ehLast' = EhOp("attach", func, EhResult)
    /\ UNCHANGED <<normalized, dvars, cvars, fvars>>

\* errorHandler.detach(func)
Detach ==
  \E func \in Functions \cup NonFunctions :
    /\ observers' = detach(observers, func)
    /\ attached' = attached \ {func}
    /\ detached' = IF func \in attached THEN detached \cup {func} ELSE detached
    /\ ehLast' = EhOp("detach", func, EhResult)
    /\ UNCHANGED <<normalized, dvars, cvars, fvars>>

\* errorHandler.notify(data)
Notify ==
  \E data \in AppErrors :
    LET n == notify(observers, data)
    IN /\ ehLast' = EhOp("notify", data, [EhResult EXCEPT !.calls = n.calls, !.threw = n.threw])
       /\ UNCHANGED <<observers, attached, detached, normalized>>
       /\ UNCHANGED <<dvars, cvars, fvars>>

\* errorHandler.handleError(errorToHandle)
HandleError ==
  \E errorToHandle \in Inputs :
    /\ ehLast' = EhOp("handleError", errorToHandle, handleError(observers, errorToHandle))
    /\ UNCHANGED <<observers, attached, detached, normalized>>
    /\ UNCHANGED <<dvars, cvars, fvars>>

\* errorHandler.convertUnknownToAppError(errorToHandle), for a sample
\* value, an object with some of the properties looked up, or the AppError
\* the call before returned
Convert ==
  \E errorToHandle \in Inputs \cup ObjectsWith \cup {v \in {normalized.val} : v # None} :
    LET c == convertUnknownToAppError(errorToHandle)
    IN /\ normalized' = [arg |-> errorToHandle, val |-> c.val, threw |-> c.threw,
                         fresh |-> c.fresh]
       /\ ehLast' = EhOp("convert", errorToHandle, EhResult)
       /\ UNCHANGED <<observers, attached, detached>>
       /\ UNCHANGED <<dvars, cvars, fvars>>

NextEH == Attach \/ Detach \/ Notify \/ HandleError

SpecEH == Init /\ [][NextEH]_vars

\* context.run(initialContext, callback): the callback starts; a new object
\* gets the entries of one of the initial contexts
Run ==
  \E r \in Runs, o \in Objs, init \in InitialContexts :
    /\ task[r].phase = "idle"
    /\ \A q \in Runs : q < r => task[q].phase # "idle"
    /\ (\E q \in Runs : task[q].obj = o) \/ (\A q \in Objs : q < o => \E t \in Runs : task[t].obj = q)
    /\ LET c == enter(Ctx, o)
       IN /\ current' = c.current
          /\ heap' = IF \E q \in Runs : task[q].obj = o THEN c.heap
                                                        ELSE [c.heap EXCEPT ![o] = init]
    /\ frames' = Append(frames, [who |-> r, saved |-> current])
    /\ task' = [task EXCEPT ![r] = [phase |-> "running", obj |-> o, ctx |-> 0, resumed |-> FALSE]]
    /\ ctxLast' = CtxOp("run", Executing, "", "", CtxResult)
    /\ expected' = IF \E q \in Runs : task[q].obj = o THEN expected
                                                       ELSE [expected EXCEPT ![o] = init]
    /\ UNCHANGED <<dvars, evars, fvars>>

\* context.set(key, value), by the code being executed
Set ==
  \E key \in Keys, value \in Vals :
    LET c == set(Ctx, key, value)
    IN /\ heap' = c.heap
       /\ ctxLast' = CtxOp("set", Executing, key, value, CtxResult)
       /\ expected' = IF Executing = 0 THEN expected
                      ELSE [expected EXCEPT ![task[Executing].obj][key] = value]
       /\ UNCHANGED <<current, frames, task, dvars, evars, fvars>>

\* context.get(key), by the code being executed
Get ==
  \E key \in Keys :
    /\ ctxLast' = CtxOp("get", Executing, key, "", [CtxResult EXCEPT !.ret = get(Ctx, key)])
    /\ UNCHANGED <<current, heap, frames, task, expected, dvars, evars, fvars>>

\* context.getStore(), by the code being executed
GetStore ==
  LET store == getStore(Ctx)
  IN /\ ctxLast' = CtxOp("getStore", Executing, "", "",
                         [CtxResult EXCEPT !.ref = store,
                                           !.entries = IF store = 0 THEN NoEntries ELSE heap[store]])
     /\ UNCHANGED <<current, heap, frames, task, expected, dvars, evars, fvars>>

\* the callback being executed reaches an await, or returns: run returns
\* to its caller, or the continuation ends
Leave(phase) ==
  /\ frames # <<>>
  /\ LET f == frames[Len(frames)]
         c == leave(Ctx, f.saved)
     IN /\ current' = c.current
        /\ task' = [task EXCEPT ![f.who].phase = phase, ![f.who].ctx = current]
        /\ ctxLast' = CtxOp(phase, f.who, "", "", CtxResult)
  /\ frames' = SubSeq(frames, 1, Len(frames) - 1)
  /\ UNCHANGED <<heap, expected, dvars, evars, fvars>>

Await == Leave("suspended")

Return == Leave("done")

\* the event loop resumes a suspended callback after its await
Resume ==
  \E r \in Runs :
    /\ frames = <<>>
    /\ task[r].phase = "suspended"
    /\ LET c == resume(Ctx, task[r].ctx)
       IN current' = c.current
    /\ frames' = <<[who |-> r, saved |-> current]>>
    /\ task' = [task EXCEPT ![r].phase = "running", ![r].resumed = TRUE]
    /\ ctxLast' = CtxOp("resume", r, "", "", CtxResult)
    /\ UNCHANGED <<heap, expected, dvars, evars, fvars>>

NextContext == Run \/ Set \/ Get \/ GetStore \/ Await \/ Return \/ Resume

SpecContext == Init /\ [][NextContext]_vars

\* Left(val) or Right(val) for a sample value or for the Either made
\* before, then isLeft and isRight of the result
Make(made) ==
  \E val \in Wrapped \cup {v \in {either.val} : v # None /\ either.depth < MaxDepth} :
    LET e == IF made = "Left" THEN Left(val) ELSE Right(val)
    IN /\ either' = [made |-> made, arg |-> val, val |-> e,
                     depth |-> IF val \in Wrapped THEN 1 ELSE either.depth + 1,
                     isLeft |-> isLeft(e), isRight |-> isRight(e)]
       /\ UNCHANGED <<sequenced, dvars, evars, cvars>>

MakeLeft == Make("Left")

MakeRight == Make("Right")

NextEither == MakeLeft \/ MakeRight

\* await sequence(...functions)(arg)
Sequence ==
  \E functions \in HandleSeqs(MaxFunctions), arg \in {<<>>, <<0>>} :
    LET r == sequence(functions, arg)
    IN /\ sequenced' = [functions |-> functions, arg |-> arg, ret |-> r.ret, calls |-> r.calls]
       /\ UNCHANGED <<either, dvars, evars, cvars>>

NextSequence == Sequence

SpecSequence == Init /\ [][NextSequence]_vars

SpecEither == Init /\ [][NextEither]_vars

NextNormalize == Convert

SpecNormalize == Init /\ [][NextNormalize]_vars

\* ----------------------------------------------------------------- claims
\* number of times the container called o's [Symbol.dispose]()
Count(log, o) == Cardinality({i \in 1..Len(log) : log[i] = o})

\* C1: a resolve made after injection(x), with no clearInjected or dispose in
\* between, returns x, whatever the cache slot holds and whatever the
\* cacheable flag is.
InjectionPriority ==
  (last.op = "resolve" /\ lastInject # None) => last.ret = lastInject

\* a resolve returned the injected value while the cache slot held another one
InjectionPriorityWitness ==
  /\ last.op = "resolve"
  /\ lastInject # None
  /\ last.ret = lastInject
  /\ serviceCached # Undefined
  /\ serviceCached # lastInject

\* C2 as stated: with cacheable = true, two resolve calls with no injection and
\* no clearInjected between them return the same instance.
IdentityUnderCachingAsStated ==
  [][(/\ last'.op = "resolve"
      /\ cacheable
      /\ prevResolve.ret # None
      /\ prevResolve.since \cap {"inject", "clearInjected"} = {})
     => last'.ret = prevResolve.ret]_vars

\* C2 as amended: with cacheable = true, two resolve calls with no injection,
\* no clearInjected and no dispose between them return the same instance, and
\* the field written through the first result is read through the second.
IdentityUnderCaching ==
  [][(/\ last'.op = "resolve"
      /\ cacheable
      /\ prevResolve.ret # None
      /\ prevResolve.since = {})
     => /\ last'.ret = prevResolve.ret
        /\ ~last'.fresh
        /\ last'.ret.kind = "built" => name'[last'.ret.n] >= name[prevResolve.ret.n]]_vars

\* a second resolve returned the cached instance with the field written
\* through the first one
IdentityUnderCachingWitness ==
  /\ cacheable
  /\ last.op = "resolve"
  /\ ~last.fresh
  /\ serviceInjected = Undefined
  /\ last.ret = serviceCached
  /\ last.ret.kind = "built"
  /\ name[last.ret.n] = 1

ClearReverts ==
  revert.phase = "reverted" =>
    /\ last.op = "resolve"
    /\ IF cacheable /\ revert.cached # Undefined
         THEN last.ret = revert.cached /\ ~last.fresh /\ serviceCached = revert.cached
         ELSE last.fresh /\ last.ret = Inst(built) /\ serviceCached = last.ret

\* the instance cached before the injection came back after clearInjected
ClearRevertsWitness ==
  /\ revert.phase = "reverted"
  /\ cacheable
  /\ revert.cached # Undefined
  /\ last.ret = revert.cached
  /\ name[last.ret.n] = 1

\* C5 as stated: when dispose is called while a disposable mock x is in the
\* injected slot, x has been released exactly once when dispose returns and
\* x is no longer in the slot.
DisposalScope ==
  [][(last'.op = "dispose" /\ serviceInjected \in DisposableMocks)
     => /\ Count(releaseLog', serviceInjected) = 1
        /\ serviceInjected' # serviceInjected]_vars

\* C6: every instance the container released was passed to injection; an
\* instance built from the recipe and never injected is never released.
NonDisposalOfBuilt ==
  \A i \in 1..Len(releaseLog) :
    releaseLog[i].kind = "built" => releaseLog[i] \in injectedBuilt

\* after a second disposal the cached, never injected instance is unreleased
\* while an injected recipe-built instance was released
NonDisposalOfBuiltWitness ==
  /\ last.op = "dispose"
  /\ last.rel = <<>>
  /\ \E i \in 1..Len(releaseLog) : releaseLog[i].kind = "built"
  /\ serviceCached.kind = "built"
  /\ serviceCached \notin injectedBuilt
  /\ Count(releaseLog, serviceCached) = 0

\* C7 as stated: clearInjected releases a disposable found in the injected
\* slot exactly once, releases nothing otherwise, and empties the slot.
ClearInjectedReleases ==
  [][last'.op = "clearInjected"
     => /\ last'.rel = IF HasDispose(serviceInjected) THEN <<serviceInjected>> ELSE <<>>
        /\ serviceInjected' = Undefined]_vars

\* what a caller can see of a container: the two slots and the release calls
Observable(d) == [injected |-> d.injected, cached |-> d.cached, log |-> d.log]

\* C8 as stated: from the same state dispose and clearInjected make the same
\* release calls and leave the same slots.
DisposeEqualsClearInjected ==
  Observable(dispose(Self)) = Observable(clearInjected(Self))

\* C9 as stated: when dispose returns the injected slot is empty and resolve
\* returns a recipe-built instance.
DisposeEmptiesOverride ==
  last.op = "dispose" =>
    /\ serviceInjected = Undefined
    /\ resolve(Self).ret.kind = "built"

\* C10 as stated: after injection(A) and injection(B) of two disposables with
\* no clearInjected in between, dispose releases B and nothing else.
ReinjectionReleasesLast ==
  [][(last'.op = "dispose" /\ reinject # <<>>)
     => last'.rel = <<reinject[2]>>]_vars

\* C11 as stated: injection returns normally in every state and for every
\* value.
InjectNeverThrows ==
  last.op = "inject" => last.threw = <<>>

\* C12 as stated: dispose leaves the cache slot and the instances' fields as
\* they are; with caching enabled the resolve that follows a disposal returns
\* the instance that was cached when the value was injected; with an empty
\* injected slot and nothing registered, dispose changes no slot and
\* releases nothing.
DisposalLeavesCache ==
  [][/\ last'.op = "dispose"
        => /\ serviceCached' = serviceCached
           /\ name' = name
           /\ (serviceInjected = Undefined /\ Len(stack) <= 1)
                => (serviceInjected' = Undefined /\ last'.rel = <<>>)
     /\ (revert'.phase = "resumed" /\ cacheable /\ revert'.cached # Undefined)
        => last'.ret = revert'.cached]_vars

\* C13 as stated: when a `using` block ends, normally, by a return or by a
\* throw, the disposal it runs has released every disposable mock that was
\* injected inside the block.
ScopeExitReleases ==
  (last.op = "dispose" /\ last.arg \in Exits)
    => \A x \in scope.injected : Count(last.rel, x) >= 1

\* the releases of a disposal that threw
Throwers(rel) == SelectSeq(rel, LAMBDA o : o.kind = "throwing")

ConstructionErrorUnchanged ==
  [][/\ (last'.op = "resolve" /\ last'.threw # <<>>)
        => /\ last'.threw = <<CtorError>>
           /\ last'.ret = Undefined
           /\ last'.ctor = 1
           /\ ~last'.fresh
           /\ serviceCached' = Undefined
     /\ (last.op = "resolve" /\ last.threw # <<>> /\ last'.op = "resolve")
        => last'.ctor = 1]_vars

\* the constructor threw in a container that does not cache and had built
\* an instance before: the slot is empty
ConstructionErrorUnchangedWitness ==
  /\ last.op = "resolve"
  /\ last.threw = <<CtorError>>
  /\ last.ctor = 1
  /\ built >= 1
  /\ serviceCached = Undefined

\* C16 as stated: injection and clearInjected return the container they
\* were called on, in every state.
Chaining ==
  last.op \in {"inject", "clearInjected"} => last.ret = This

\* the calls that invoke each function of obs once with data, in the order
\* of obs
CallsOf(obs, data) == [i \in 1..Len(obs) |-> [fn |-> obs[i], data |-> data]]

\* the functions of obs up to and including the first that throws
RECURSIVE UpToFirstThrow(_)
UpToFirstThrow(obs) ==
  IF obs = <<>> THEN <<>>
  ELSE IF Head(obs).kind = "throwingObserver" THEN <<Head(obs)>>
       ELSE <<Head(obs)>> \o UpToFirstThrow(Tail(obs))

\* the functions of a list, as a set
Range(obs) == {obs[i] : i \in 1..Len(obs)}

\* the status the normalization of each handled value must give: the one of
\* an AppError, the HttpStatus an object carries, or else its HTTPStatus,
\* statusCode or status, InternalServerError otherwise
ExpectedStatus(e) ==
  CASE e.kind = "AppError" -> e.props.HttpStatus
    [] e.kind = "object" /\ "HttpStatus" \in DOMAIN e.props -> e.props.HttpStatus
    [] e.kind = "object" /\ "HTTPStatus" \in DOMAIN e.props -> e.props.HTTPStatus
    [] e.kind = "object" /\ "statusCode" \in DOMAIN e.props -> e.props.statusCode
    [] e.kind = "object" /\ "status" \in DOMAIN e.props -> e.props.status
    [] OTHER -> InternalServerError

\* C17 as stated: for every input and every set of attached observers,
\* handleError normalizes the input, calls each attached observer once with
\* the AppError and returns the HttpStatus of the AppError.
HandleErrorStatusAsStated ==
  ehLast.op = "handleError" =>
    LET c == convertUnknownToAppError(ehLast.arg)
    IN /\ c.threw = <<>>
       /\ ehLast.calls = CallsOf(observers, c.val)
       /\ ehLast.ret = c.val.props.HttpStatus

\* C17 as amended: when the normalization of the input and every attached
\* observer return, handleError has called each attached observer once with
\* the AppError, in the order of the list, has published the input and the
\* AppError on 'error-handling:handleError', and returns the HttpStatus of
\* the AppError; an AppError is handed to the observers as it is.
HandleErrorStatus ==
  (/\ ehLast.op = "handleError"
   /\ ehLast.arg.kind # "hostile"
   /\ \A f \in Range(observers) : f.kind = "observer")
  => LET c == convertUnknownToAppError(ehLast.arg)
     IN /\ ehLast.threw = <<>>
        /\ c.val.kind = "AppError"
        /\ ehLast.arg.kind = "AppError" => c.val = ehLast.arg
        /\ ehLast.calls = CallsOf(observers, c.val)
        /\ ehLast.pub = <<HandleErrorMessage(ehLast.arg, c.val)>>
        /\ ehLast.ret = c.val.props.HttpStatus
        /\ ehLast.ret = ExpectedStatus(ehLast.arg)

\* two observers are attached and an AppError of status NotFound was
\* handled: both were called and NotFound was returned
HandleErrorStatusWitness ==
  /\ ehLast.op = "handleError"
  /\ ehLast.arg.kind = "AppError"
  /\ Len(observers) = 2
  /\ Len(ehLast.calls) = 2
  /\ ehLast.ret = NotFound

\* the error that stopped the try block of the handleError recorded in
\* ehLast: the one of the normalization, or else the one of the first
\* attached observer that throws
HandlingErrors ==
  LET c == convertUnknownToAppError(ehLast.arg)
  IN IF c.threw # <<>> THEN c.threw
     ELSE LET t == SelectSeq(observers, LAMBDA f : f.kind = "throwingObserver")
          IN IF t = <<>> THEN <<>> ELSE <<ObserverError(t[1])>>

\* C18 as stated: handleError never raises; when the normalization or an
\* attached observer throws h while e is handled, it publishes
\* {handlingError: h, errorToHandle: e} on 'error-handling:error' and
\* returns InternalServerError.
HandleErrorNeverThrows ==
  ehLast.op = "handleError" =>
    /\ ehLast.threw = <<>>
    /\ HandlingErrors # <<>> =>
         /\ ehLast.pub # <<>>
         /\ ehLast.pub[Len(ehLast.pub)] = ErrorMessage(HandlingErrors[1], ehLast.arg)
         /\ ehLast.ret = InternalServerError

\* C19 as stated: notify(e) calls every attached observer once with e, in
\* the order of attachment.
NotifyAllAsStated ==
  ehLast.op = "notify" => ehLast.calls = CallsOf(observers, ehLast.arg)

\* C19 as amended: the list holds each attached function once, in the order
\* of the attach calls that added them; attach of a function that is
\* attached and attach of a non-function leave the list as it is; notify(e)
\* calls the observers of the list once each with e, in the order of the
\* list, up to and including the first that throws, whose error it raises:
\* all of them when none throws.
NotifyAttached ==
  [][/\ Range(observers') = attached'
     /\ \A i, j \in 1..Len(observers') : observers'[i] = observers'[j] => i = j
     /\ ehLast'.op = "attach"
        => observers' = IF ehLast'.arg \in Functions \ attached
                          THEN Append(observers, ehLast'.arg)
                          ELSE observers
     /\ ehLast'.op = "notify"
        => /\ ehLast'.calls = CallsOf(UpToFirstThrow(observers), ehLast'.arg)
           /\ Len(ehLast'.calls) = Len(observers) <=> 
                (\A i \in 1..(Len(observers) - 1) : observers[i].kind = "observer")
           /\ ehLast'.threw =
                IF \E f \in attached : f.kind = "throwingObserver"
                  THEN <<ObserverError(ehLast'.calls[Len(ehLast'.calls)].fn)>>
                  ELSE <<>>]_vars

\* three functions are attached, the one that throws last, and notify
\* called the three in the order of the list
NotifyAttachedWitness ==
  /\ ehLast.op = "notify"
  /\ Len(observers) = 3
  /\ Len(ehLast.calls) = 3
  /\ \A i \in 1..3 : ehLast.calls[i] = [fn |-> observers[i], data |-> ehLast.arg]

\* C20: notify and handleError call attached functions only, so none that
\* was detached and not attached again; detach of a function that is not
\* attached leaves the list as it is; detach(f) removes f and keeps the
\* other functions in their order.
DetachStops ==
  [][/\ ehLast'.op \in {"notify", "handleError"}
        => \A i \in 1..Len(ehLast'.calls) :
             /\ ehLast'.calls[i].fn \in attached
             /\ ehLast'.calls[i].fn \notin detached
     /\ ehLast'.op = "detach"
        => /\ ehLast'.arg \notin Range(observers) => observers' = observers
           /\ ehLast'.arg \notin Range(observers')
           /\ Range(observers') = Range(observers) \ {ehLast'.arg}
           /\ \A g \in Functions \ {ehLast'.arg} :
                SelectSeq(observers', LAMBDA o : o = g) = SelectSeq(observers, LAMBDA o : o = g)
           /\ \A i, j \in 1..Len(observers') :
                i < j => \E k, l \in 1..Len(observers) :
                           k < l /\ observers[k] = observers'[i] /\ observers[l] = observers'[j]]_vars

\* a function was detached and is not attached, and a notify made since
\* called the two that stay attached
DetachStopsWitness ==
  /\ ehLast.op = "notify"
  /\ detached # {}
  /\ Len(ehLast.calls) = 2
  /\ \A i \in 1..2 : ehLast.calls[i].fn \notin detached

\* C21: convertUnknownToAppError returns an AppError it is given as it is,
\* the same object and not a copy; so applied to the AppError it returned
\* for any value, it returns that same AppError again.
NormalizationIdentity ==
  [][/\ normalized'.arg.kind = "AppError"
        => /\ normalized'.threw = <<>>
           /\ normalized'.val = normalized'.arg
           /\ ~normalized'.fresh
     /\ (normalized.threw = <<>> /\ normalized.val # None /\ normalized'.arg = normalized.val)
        => /\ normalized'.val = normalized.val
           /\ ~normalized'.fresh]_vars

\* the AppError made from a plain object with a reason was normalized
\* again and came back as it was
NormalizationIdentityWitness ==
  /\ normalized.arg.kind = "AppError"
  /\ "reason" \in normalized.arg.own
  /\ normalized.val = normalized.arg
  /\ ~normalized.fresh

\* the value of the first of the properties `possible` that e has, or else
\* defaultValue
FirstPresent(e, possible, defaultValue) ==
  LET present == {i \in 1..Len(possible) : possible[i] \in DOMAIN e.props}
  IN IF e.kind \in {"string", "primitive"} \/ present = {}
       THEN defaultValue
       ELSE e.props[possible[CHOOSE i \in present : \A j \in present : i <= j]]

\* C22 as stated: the AppError made from a value that is not an AppError
\* has the message of the first of message, reason, description the value
\* has (default 'Unknown error'), the name of name, code (default
\* 'unknown-error'), the status of HTTPStatus, statusCode, status (default
\* 500) and the isOperational of isOperational, operational (default
\* false); a string is the message, and any other value that is not an
\* object gives the four defaults.
LookupOrder ==
  (normalized.arg # None /\ normalized.arg.kind # "AppError" /\ normalized.threw = <<>>)
  => LET e == normalized.arg
         r == normalized.val.props
     IN /\ r.message = IF e.kind = "string" THEN e.props.value
                        ELSE FirstPresent(e, <<"message", "reason", "description">>,
                                          "Unknown error")
        /\ r.name = FirstPresent(e, <<"name", "code">>, "unknown-error")
        /\ r.HttpStatus = FirstPresent(e, <<"HTTPStatus", "statusCode", "status">>,
                                       InternalServerError)
        /\ r.isOperational = FirstPresent(e, <<"isOperational", "operational">>, FALSE)

\* C23: in code executed outside every run callback, set changes no
\* object, get returns undefined and getStore returns undefined, whatever
\* was set or run before.
NoStoreOutside ==
  [][ctxLast'.who = 0
     => /\ ctxLast'.op = "set" => heap' = heap
        /\ ctxLast'.op = "get" => ctxLast'.ret = "undefined"
        /\ ctxLast'.op = "getStore" => ctxLast'.ref = 0]_vars

\* getStore is called outside every callback after a run that set a value
\* has finished
NoStoreOutsideWitness ==
  /\ ctxLast.op = "getStore"
  /\ ctxLast.who = 0
  /\ ctxLast.ref = 0
  /\ \E r \in Runs : task[r].phase = "done" /\ heap[task[r].obj]["user"] # "undefined"

DisjointUnion ==
  either.made # "none"
  => /\ either.val.value = either.arg
     /\ either.made = "Left" => either.isLeft /\ ~either.isRight
     /\ either.made = "Right" => either.isRight /\ ~either.isLeft
     /\ either.isLeft # either.isRight

\* a Left was made of a Right of undefined: it is a Left only
DisjointUnionWitness ==
  /\ either.made = "Left"
  /\ either.arg = [tag |-> "right", value |-> Undefined]
  /\ either.isLeft
  /\ ~either.isRight

\* C27: a resolve made while a value is injected returns that value, does
\* not call the constructor and leaves the cache slot as it is, with
\* caching enabled and with caching disabled.
OverrideResolveIsPure ==
  [][(last'.op = "resolve" /\ serviceInjected # Undefined)
     => /\ last'.ret = serviceInjected
        /\ last'.ctor = 0
        /\ built' = built
        /\ serviceCached' = serviceCached
        /\ serviceInjected' = serviceInjected]_vars

\* caching is disabled, an instance is stored, a mock is injected and was
\* resolved: the stored instance is still there
OverrideResolveIsPureWitness ==
  /\ ~cacheable
  /\ last.op = "resolve"
  /\ serviceInjected \in DisposableMocks \cup PlainMocks
  /\ last.ret = serviceInjected
  /\ serviceCached = Inst(1)

\* C28: no instance is built when the container is made; injection,
\* clearInjected and dispose never call the constructor; the first call of
\* the constructor is made by the first resolve that finds no injected
\* value.
Laziness ==
  [][/\ last.op = "new" => built = 0
     /\ last'.op \in {"inject", "clearInjected", "dispose"}
        => built' = built /\ last'.ctor = 0 /\ serviceCached' = serviceCached
     /\ (built = 0 /\ last'.op = "resolve" /\ serviceInjected = Undefined)
        => built' = 1 /\ last'.ctor = 1
     /\ (built = 0 /\ built' > 0)
        => last'.op = "resolve" /\ serviceInjected = Undefined]_vars

\* a value was injected, resolved and cleared, and the resolve made then
\* was the first to call the constructor
LazinessWitness ==
  /\ last.op = "resolve"
  /\ revert.phase = "reverted"
  /\ built = 1
  /\ last.ctor = 1
  /\ last.ret = Inst(1)

\* C29 as stated: with caching disabled a resolve that finds no injected
\* value empties the slot, builds an instance and leaves it in the slot,
\* and no later resolve returns an instance that was in the slot.
DisabledCacheFillsSlotAsStated ==
  [][(~cacheable /\ last'.op = "resolve")
     => /\ serviceInjected = Undefined
           => /\ last'.ctor = 1
              /\ serviceCached' = last'.ret
        /\ last'.ret.kind = "built" => last'.ret.n > built]_vars

\* C29 as amended: with caching disabled a resolve that finds no injected
\* value calls the constructor, returns the new instance, which is none of
\* those built before, and leaves it in the slot; a resolve returns an
\* instance that was in the slot only when that instance is the injected
\* value.
DisabledCacheFillsSlot ==
  [][(~cacheable /\ last'.op = "resolve")
     => /\ serviceInjected = Undefined
           => /\ last'.ctor = 1
              /\ built' = built + 1
              /\ last'.ret = Inst(built')
              /\ serviceCached' = last'.ret
        /\ (last'.ret.kind = "built" /\ last'.ret.n <= built)
           => last'.ret = serviceInjected]_vars

\* caching is disabled and the second instance built is in the slot
DisabledCacheFillsSlotWitness ==
  /\ ~cacheable
  /\ last.op = "resolve"
  /\ built = 2
  /\ last.ret = Inst(2)
  /\ serviceCached = Inst(2)

\* C31: clearInjected called while no value is injected changes no slot,
\* no registration and no instance and releases nothing; so a second
\* clearInjected in a row changes nothing the first one left.
ClearInjectedIdempotent ==
  [][(last'.op = "clearInjected" /\ (serviceInjected = Undefined \/ last.op = "clearInjected"))
     => /\ serviceInjected = Undefined
        /\ last'.rel = <<>>
        /\ last'.threw = <<>>
        /\ <<serviceInjected', serviceCached', stack', disposed', built', releaseLog', name'>>
             = <<serviceInjected, serviceCached, stack, disposed, built, releaseLog, name>>]_vars

\* clearInjected was called on a new container, in which nothing was ever
\* injected
ClearInjectedIdempotentWitness ==
  /\ last.op = "clearInjected"
  /\ prevResolve.ret = None
  /\ prevResolve.since = {"clearInjected"}
  /\ serviceInjected = Undefined
  /\ stack = <<AdoptEntry>>

\* the marks of the handles fs, in order
RECURSIVE Marks(_)
Marks(fs) == IF fs = <<>> THEN <<>> ELSE <<Head(fs).n>> \o Marks(Tail(fs))

\* C32: sequence(f1..fn)(arg) calls the functions in order, each with the
\* value of the Right before it; it returns the first Left a function
\* returns and calls no function after that one; when every function
\* returns a Right it returns a Right of the last value, and Right(arg)
\* when there is no function.
SequenceShortCircuits ==
  sequenced.ret # None
  => LET fs == sequenced.functions
         lefts == {i \in 1..Len(fs) : fs[i].returns = "left"}
         k == IF lefts = {} THEN Len(fs)
              ELSE CHOOSE i \in lefts : \A j \in lefts : i <= j
     IN /\ Len(sequenced.calls) = k
        /\ \A i \in 1..k :
             /\ sequenced.calls[i].fn = fs[i]
             /\ sequenced.calls[i].arg = sequenced.arg \o Marks(SubSeq(fs, 1, i - 1))
        /\ lefts # {} => sequenced.ret = Left([kind |-> "error", n |-> fs[k].n])
        /\ lefts = {} => sequenced.ret = Right(sequenced.arg \o Marks(fs))
        /\ fs = <<>> => sequenced.ret = Right(sequenced.arg)

\* the second of three functions returned a Left: the third was not called
SequenceShortCircuitsWitness ==
  /\ Len(sequenced.functions) = 3
  /\ sequenced.functions[1].returns = "right"
  /\ sequenced.functions[2].returns = "left"
  /\ Len(sequenced.calls) = 2
  /\ isLeft(sequenced.ret)

\* C33: in a container that caches, whatever resolve, injection,
\* clearInjected and dispose calls are made, the constructor is called at
\* most once, and the cache slot, once it holds an instance, holds that
\* instance in every later state.
SingleConstruction ==
  [][cacheable
     => /\ built' <= 1
        /\ last'.ctor = 1 => built = 0
        /\ serviceCached # Undefined => serviceCached' = serviceCached]_vars

\* the container caches, was disposed of, and the resolve made then gave
\* the instance of the slot without calling the constructor
SingleConstructionWitness ==
  /\ cacheable
  /\ disposed
  /\ last.op = "resolve"
  /\ last.ctor = 0
  /\ last.ret = Inst(1)
  /\ serviceCached = Inst(1)

\* the sequence in the opposite order
Reverse(q) == [i \in 1..Len(q) |-> q[Len(q) + 1 - i]]

FailingReleaseDoesNotBlock ==
  [][(last'.op = "dispose" /\ ~disposed /\ last'.threw # <<>>)
     => /\ last'.rel = Reverse(passed)
        /\ \E i \in 1..Len(last'.rel) : last'.rel[i].kind = "throwing"
        /\ serviceInjected' = Undefined
        /\ disposed']_vars

\* the release invoked first threw, and the disposable injected before it
\* was released all the same
FailingReleaseDoesNotBlockWitness ==
  /\ last.op = "dispose"
  /\ last.threw # <<>>
  /\ Len(last.rel) = 2
  /\ last.rel[1].kind = "throwing"
  /\ last.rel[2].kind = "disposable"
  /\ serviceInjected = Undefined
  /\ disposed

NotifiedData(op) ==
  IF op.op = "notify" THEN op.arg ELSE convertUnknownToAppError(op.arg).val

\* C37: an observer that throws cuts the notification short: the observers
\* after it in the list are not called; inside handleError the call then
\* returns InternalServerError instead of the normalized HttpStatus; the
\* observer list is unchanged.
ThrowingObserverCutsShort ==
  [][(/\ ehLast'.op \in {"notify", "handleError"}
      /\ \E f \in attached : f.kind = "throwingObserver"
      /\ ehLast'.op = "handleError" => convertUnknownToAppError(ehLast'.arg).threw = <<>>)
     => /\ ehLast'.calls = CallsOf(UpToFirstThrow(observers), NotifiedData(ehLast'))
        /\ observers' = observers
        /\ ehLast'.op = "handleError"
             => (ehLast'.threw = <<>> /\ ehLast'.ret = InternalServerError)]_vars

\* C38 as stated: an observer that was attached and not detached since is
\* called by every later notify and handleError; the list never contains
\* the same function twice.
EveryAttachedIsCalledAsStated ==
  /\ \A i, j \in 1..Len(observers) : observers[i] = observers[j] => i = j
  /\ ehLast.op \in {"notify", "handleError"}
       => \A f \in attached : \E i \in 1..Len(ehLast.calls) : ehLast.calls[i].fn = f

\* C38 as amended: there is one observer list; an observer that was attached
\* and not detached since is in it once, and every later notify, and every
\* later handleError whose normalization does not throw, calls it once,
\* unless an observer before it in the list throws.
EveryAttachedIsCalled ==
  [][/\ \A f \in attached' :
          Cardinality({i \in 1..Len(observers') : observers'[i] = f}) = 1
     /\ ehLast'.op \in {"notify", "handleError"}
          => \A i \in 1..Len(observers) :
               (/\ observers[i] \in attached
                /\ \A j \in 1..(i - 1) : observers[j].kind # "throwingObserver"
                /\ ehLast'.op = "handleError"
                     => convertUnknownToAppError(ehLast'.arg).threw = <<>>)
               => Cardinality({k \in 1..Len(ehLast'.calls) :
                                 ehLast'.calls[k] = [fn |-> observers[i],
                                                     data |-> NotifiedData(ehLast')]}) = 1]_vars

\* handleError called the three attached observers, the one that throws
\* being the last of the list
EveryAttachedIsCalledWitness ==
  /\ ehLast.op = "handleError"
  /\ Len(observers) = 3
  /\ observers[3].kind = "throwingObserver"
  /\ Len(ehLast.calls) = 3
  /\ ehLast.ret = InternalServerError

====
